---- MODULE Spec2Model ----
(***************************************************************************)
(* Resilience controller (SystemResilientApp, marker / LaunchAgent variant)*)
(* and background task executor of the Electron application.               *)
(*                                                                         *)
(* One controller process at a time is modelled through its whole life     *)
(* (launch, app ready, events, exit); the restart marker file outlives the *)
(* process and is carried over to the next launch.                         *)
(***************************************************************************)
EXTENDS Integers, FiniteSets, Sequences, TLC

\* ---------------------------------------------------------------- bounds
MaxRuns    == 2   \* launches of the application that are followed
MaxTimers  == 2   \* pending setTimeout callbacks of one kind
MaxWorkers == 2   \* start-heavy-task invocations of one process
MaxChunks  == 2   \* chunks one worker writes to its stdout
MaxInstances == 2 \* instances the heartbeat monitor starts
MaxWrites  == 2   \* chunks generateRandomDataFile writes
MaxYields  == 2   \* sleeps of a worker loop that yields
MaxN       == 30  \* largest argument of isPrime
MaxCount   == 5   \* largest argument of generateLargePrimes
MaxChunkSize == 3 \* largest chunkSize of generateRandomDataFile, in bytes
MaxTotalSize == 12 \* largest totalSize of generateRandomDataFile, in bytes
MaxOverhead == 2  \* largest length of the JSON text around the data

\* ------------------------------------------------------- program values
Platforms   == {"darwin", "linux", "win32"}
WindowStates == {"null", "hidden", "visible", "minimized"}
TimerKinds  == {"closeRecreate", "recreate", "relaunch"}
WorkerExitCodes == {0, 1}   \* exit codes a worker closes with
InstallOutcomes == {"ok", "throws", "execFails"}  \* of the platform installer

VARIABLES
  platform,          \* os.platform() / process.platform
  run,               \* number of the current launch
  pstate,            \* "down" | "starting" | "running" | "exited" | "killed"
  exitCode,          \* exit code of the process, read when pstate = "exited"
  envFlag,           \* process.env.LAUNCH_AGENT_RESTART === '1'
  isQuitting,        \* this.isQuitting
  isManualQuit,      \* this.isManualQuit
  isHeadlessMode,    \* this.isHeadlessMode
  isCreatingWindow,  \* this.isCreatingWindow
  mainWindow,        \* this.mainWindow: "null", or the window's visibility
  readyPending,      \* 'ready-to-show' of the current window not yet emitted
  tray,              \* this.tray was created
  timers,            \* pending setTimeout callbacks, by kind
  marker,            \* /tmp/resilient_app_running.marker exists
  quitPhase,         \* "none" | "closing": app.quit() is closing the windows
  relaunchCalls,     \* app.relaunch() calls of this process
  restartMechanismSetup, \* this.restartMechanismSetup
  supervisor,        \* the OS restart mechanism is installed (outlives the process)
  sec,               \* what the last secondary launch (lock not acquired) did
  ipcHandlers,       \* setupIPC() registered the ipcMain handlers
  workers,           \* the Task Runs of this process
  \* history
  forceQuitUsed,     \* the sanctioned exit control was invoked in this process
  showRequested,     \* showUI or an accepted activate ran in this process
  startFlag,         \* LAUNCH_AGENT_RESTART at launch
  startMarker,       \* marker existed when the app became ready
  markerWritten,     \* markAppAsRunning ran in this process
  prevExit,          \* how the previous process ended: "none", "exited", "killed"
  installFailed,     \* the platform installer of this process failed
  lastEvent,         \* name of the last handler that ran
  hb,                \* heartbeat variant: its files, instances and monitor
  wk                 \* worker.js: the position and history of one worker process

lifeVars == <<platform, run, pstate, exitCode, envFlag, isQuitting, isManualQuit,
              isHeadlessMode, isCreatingWindow, mainWindow, readyPending, tray,
              timers, marker, quitPhase, relaunchCalls, restartMechanismSetup,
              supervisor, sec, ipcHandlers>>
histVars == <<forceQuitUsed, showRequested, startFlag, startMarker,
              markerWritten, prevExit, installFailed>>
vars == <<lifeVars, workers, histVars, lastEvent, hb, wk>>

NoTimers == [k \in TimerKinds |-> 0]

\* setTimeout(cb of kind k)
AddTimer(t, k) == [t EXCEPT ![k] = @ + 1]
DelTimer(t, k) == [t EXCEPT ![k] = @ - 1]
CanAdd(k, n) == timers[k] + n <= MaxTimers

\* ------------------------------------------------------------ task runs
\* a result is {success, code} (from 'close'; signal: code is null) or
\* {success, error} (from 'error')
NoResult == [from |-> "none", success |-> FALSE, code |-> 0, signal |-> FALSE]
\* spawn: how spawn() went ("none" before it); proc: "unused" | "running" |
\* "failing" ('error' pending, handlers registered) | "failingUnheard"
\* ('error' pending, no handler registered) | "threw" | "errored" |
\* "erroredUnheard" | "closed"; emitted: chunks the worker wrote; pipe: chunks
\* written and not yet read; log: chunks logged by the 'data' handler;
\* settled/result: the promise returned to the caller; settles: times the
\* promise took a value; atSettle: chunks logged when it took it;
\* closeCode/closeSignal: what 'close' reported
NoWorker == [spawn |-> "none", proc |-> "unused", settled |-> FALSE,
             settles |-> 0, result |-> NoResult, emitted |-> 0,
             pipe |-> <<>>, log |-> <<>>, atSettle |-> 0,
             sawError |-> FALSE, sawClose |-> FALSE, closeCode |-> 0,
             closeSignal |-> FALSE]
NoWorkers == [i \in 1..MaxWorkers |-> NoWorker]

\* ---------------------------------------------------- heartbeat variant
\* src/src/main.js writes /tmp/resilient_app_heartbeat every second, and
\* heartbeat_monitor.sh starts the application when that file is missing or
\* stale. hb.heartbeat: "absent" | "fresh" | "stale"; hb.quitSignal:
\* /tmp/intentional_quit.signal exists; hb.lock: the instance holding the
\* single-instance lock (0: none); hb.inst[i]: "none" | "spawned" | "cleaned"
\* | "ready" | "running" | "hbStopped" | "signalled" | "exited";
\* hb.monitor: "checkSignal" | "checkHeartbeat" | "sleep" | "stopped";
\* hb.launches: start_app calls; hb.forceQuit: a force-quit handler ran to
\* its end; hb.last: the last step; hb.removed: the instances whose
\* cleanupQuitSignal found the signal file and removed it; hb.secondary: the
\* instances that did not get the lock
Instances == 1..MaxInstances

HbStart ==
  [heartbeat |-> "absent", quitSignal |-> FALSE, lock |-> 0,
   inst |-> [i \in Instances |-> "none"], monitor |-> "checkSignal",
   launches |-> 0, forceQuit |-> FALSE, last |-> "init",
   removed |-> {}, secondary |-> {}]

\* ------------------------------------------------------------ worker.js
\* wk.pc: "start" | "primes" | "file" | "json" | "calc" | "end" | "exited";
\* wk.yields: sleeps of the running loop; wk.written: chunks written to the
\* data file; wk.done: the tasks that completed, in order; wk.failed: a task
\* failed; wk.code: the exit code, read when wk.pc = "exited"
Tasks == <<"primes", "file", "json", "calc">>

WkStart ==
  [pc |-> "start", yields |-> 0, written |-> 0, done |-> <<>>,
   failed |-> FALSE, code |-> 0]

\* ------------------------------------------------------ pure helpers
\* checkIfRestartAfterKill(): existsSync, then unlinkSync of the marker in a
\* try/catch; unlinked: unlinkSync removed the file (it did not throw)
checkIfRestartAfterKillFs(mk, unlinked) ==
  [exists |-> mk, marker |-> mk /\ ~unlinked, throws |-> FALSE]

\* checkIfRestartAfterKill() on a file system whose unlinkSync succeeds
checkIfRestartAfterKill(mk) == checkIfRestartAfterKillFs(mk, TRUE)

\* markAppAsRunning(): writeFileSync of the marker
markAppAsRunning(mk) == TRUE

\* the will-quit handler's argument to process.exit
WillQuitCode(manual) == IF manual THEN 0 ELSE 1

\* the exit code restartApp passes to app.exit
RestartExitCode == 0

\* BrowserWindow.hide() / show() on this.mainWindow when it exists
Hide(mw) == IF mw # "null" THEN "hidden" ELSE mw
Show(mw) == IF mw # "null" THEN "visible" ELSE mw

\* a createWindow without its guard for an existing window
createWindowNoGuard(flag, mw, rp, hm, cw, mk, unlinked) ==
  LET chk == checkIfRestartAfterKillFs(mk, unlinked)
      wasKilledAndRestarted == chk.exists
  IN  IF flag /\ ~wasKilledAndRestarted
      THEN [mainWindow |-> "null", readyPending |-> FALSE,
            isHeadlessMode |-> TRUE, isCreatingWindow |-> FALSE,
            marker |-> markAppAsRunning(chk.marker), wrote |-> TRUE,
            constructed |-> FALSE]
      ELSE [mainWindow |-> "hidden", readyPending |-> TRUE,
            isHeadlessMode |-> FALSE, isCreatingWindow |-> TRUE,
            marker |-> chk.marker, wrote |-> FALSE, constructed |-> TRUE]

\* createWindow(), as a function of LAUNCH_AGENT_RESTART and of the fields
\* it reads; the result holds the fields it writes (wrote: the marker was
\* written by markAppAsRunning; constructed: new BrowserWindow ran);
\* unlinked: the unlinkSync of checkIfRestartAfterKill succeeds
createWindowFs(flag, mw, rp, hm, cw, mk, unlinked) ==
  IF mw # "null"
  THEN [mainWindow |-> IF ~flag THEN Show(mw) ELSE mw, readyPending |-> rp,
        isHeadlessMode |-> hm, isCreatingWindow |-> cw, marker |-> mk,
        wrote |-> FALSE, constructed |-> FALSE]
  ELSE LET chk == checkIfRestartAfterKillFs(mk, unlinked)
           wasKilledAndRestarted == chk.exists
       IN  IF flag /\ ~wasKilledAndRestarted
           THEN [mainWindow |-> "null", readyPending |-> FALSE,
                 isHeadlessMode |-> TRUE, isCreatingWindow |-> FALSE,
                 marker |-> markAppAsRunning(chk.marker), wrote |-> TRUE,
                 constructed |-> FALSE]
           ELSE [mainWindow |-> "hidden", readyPending |-> TRUE,
                 isHeadlessMode |-> FALSE, isCreatingWindow |-> TRUE,
                 marker |-> chk.marker, wrote |-> FALSE,
                 constructed |-> TRUE]

\* createWindow() on a file system whose unlinkSync succeeds
createWindow(flag, mw, rp, hm, cw, mk) ==
  createWindowFs(flag, mw, rp, hm, cw, mk, TRUE)

Running == pstate = "running"

\* assignment of the fields createWindow writes
ApplyWindow(cw) ==
  /\ mainWindow' = cw.mainWindow
  /\ readyPending' = cw.readyPending
  /\ isHeadlessMode' = cw.isHeadlessMode
  /\ isCreatingWindow' = cw.isCreatingWindow
  /\ marker' = cw.marker
  /\ markerWritten' = (markerWritten \/ cw.wrote)

windowVars == <<mainWindow, readyPending, isHeadlessMode, isCreatingWindow,
                marker, markerWritten>>
fixedVars == <<platform, run, startFlag, startMarker, prevExit,
               restartMechanismSetup, supervisor, sec, hb, wk, ipcHandlers,
               installFailed>>

\* ----------------------------------------------------- process start
\* setupApp() after requestSingleInstanceLock() returned gotTheLock: whether
\* it calls app.quit(), registers the app/process handlers and schedules
\* the whenReady initialisation
setupAppNoReturn(gotTheLock) ==
  [quit |-> ~gotTheLock, handlers |-> TRUE, whenReady |-> TRUE]

setupApp(gotTheLock) ==
  [quit |-> ~gotTheLock, handlers |-> gotTheLock, whenReady |-> gotTheLock]

NoSecondary == [ran |-> FALSE, quit |-> FALSE, handlers |-> FALSE,
                whenReady |-> FALSE]

\* this.restartMechanismSetup after setupRestartMechanism() on platform plat
\* when the installer ends with outcome o: the macOS installer rejects or
\* throws, the Linux one catches everything itself, the Windows one throws
\* from writeFileSync and reports a failed schtasks in a callback
InstallFlag(plat, o) ==
  CASE plat = "darwin" -> o = "ok"
    [] plat = "linux"  -> TRUE
    [] OTHER           -> o # "throws"

\* a setupRestartMechanism without its try/catch: a failed installer rejects
setupRestartMechanismNoCatch(plat, o) ==
  [restartMechanismSetup |-> InstallFlag(plat, o),
   rejects |-> ~InstallFlag(plat, o)]

\* setupRestartMechanism(): the flag it leaves, and whether the promise it
\* returns rejects (an unhandledRejection): its catch logs every failure
setupRestartMechanism(plat, o) ==
  [restartMechanismSetup |-> InstallFlag(plat, o), rejects |-> FALSE]

\* a setupRestartMechanism without its guard: every call runs the installer
setupRestartMechanismCallNoGuard(done, plat, o) ==
  [restartMechanismSetup |-> setupRestartMechanism(plat, o).restartMechanismSetup,
   rejects |-> setupRestartMechanism(plat, o).rejects, installs |-> TRUE]

\* a call of setupRestartMechanism() when this.restartMechanismSetup = done:
\* it returns at once when done (installs: the platform installer, with its
\* file writes and exec calls, ran)
setupRestartMechanismCall(done, plat, o) ==
  IF done
  THEN [restartMechanismSetup |-> done, rejects |-> FALSE, installs |-> FALSE]
  ELSE [restartMechanismSetup |-> setupRestartMechanism(plat, o).restartMechanismSetup,
        rejects |-> setupRestartMechanism(plat, o).rejects, installs |-> TRUE]

\* whether the installed mechanism starts the application again after a
\* process that ended as how ("exited" with code, or "killed"): LaunchAgent
\* KeepAlive/SuccessfulExit=false, systemd Restart=always, the batch loop
SupervisorRestarts(plat, how, code) ==
  CASE plat = "darwin" -> how = "killed" \/ code # 0
    [] plat = "linux"  -> TRUE
    [] OTHER           -> TRUE

\* the environment the mechanism launches with: only the LaunchAgent plist
\* sets LAUNCH_AGENT_RESTART
SupervisorFlag(plat) == plat = "darwin"

\* the controller before its first launch: no process, no supervisor
AppDown ==
  /\ platform \in Platforms
  /\ run = 0
  /\ pstate = "down"
  /\ exitCode = 0
  /\ envFlag = FALSE
  /\ isQuitting = FALSE
  /\ isManualQuit = FALSE
  /\ isHeadlessMode = FALSE
  /\ isCreatingWindow = FALSE
  /\ mainWindow = "null"
  /\ readyPending = FALSE
  /\ tray = FALSE
  /\ timers = NoTimers
  /\ marker \in BOOLEAN
  /\ quitPhase = "none"
  /\ relaunchCalls = 0
  /\ restartMechanismSetup = FALSE
  /\ supervisor = FALSE
  /\ sec = NoSecondary
  /\ ipcHandlers = FALSE
  /\ installFailed = FALSE
  /\ workers = NoWorkers
  /\ forceQuitUsed = FALSE
  /\ showRequested = FALSE
  /\ startFlag = FALSE
  /\ startMarker = FALSE
  /\ markerWritten = FALSE
  /\ prevExit = "down"
  /\ lastEvent = "init"
  /\ hb = HbStart

Init == AppDown /\ wk = WkStart

\* new SystemResilientApp(): constructor and setupApp with the lock acquired
Start(flag, ev) ==
  /\ pstate \in {"down", "exited", "killed"}
  /\ run < MaxRuns
  /\ run' = run + 1
  /\ prevExit' = pstate
  /\ pstate' = IF setupApp(TRUE).whenReady THEN "starting" ELSE "exited"
  /\ restartMechanismSetup' = FALSE
  /\ ipcHandlers' = FALSE
  /\ installFailed' = FALSE
  /\ sec' = NoSecondary
  /\ envFlag' = flag
  /\ startFlag' = flag
  /\ startMarker' = FALSE
  /\ isQuitting' = FALSE
  /\ isManualQuit' = FALSE
  /\ isHeadlessMode' = FALSE
  /\ isCreatingWindow' = FALSE
  /\ mainWindow' = "null"
  /\ readyPending' = FALSE
  /\ tray' = FALSE
  /\ timers' = NoTimers
  /\ quitPhase' = "none"
  /\ relaunchCalls' = 0
  /\ workers' = NoWorkers
  /\ forceQuitUsed' = FALSE
  /\ showRequested' = FALSE
  /\ markerWritten' = FALSE
  /\ lastEvent' = ev
  /\ UNCHANGED <<platform, exitCode, marker, supervisor, hb, wk>>

\* the user (or app.relaunch) starts the application
Launch(flag) == Start(flag, "launch")

\* the installed OS mechanism starts the application after it ended
SupervisorRelaunch ==
  /\ supervisor
  /\ SupervisorRestarts(platform, pstate, exitCode)
  /\ Start(SupervisorFlag(platform), "supervisorLaunch")

\* app.whenReady().then(...): setupTray, createWindow, setupRestartMechanism,
\* setupIPC; unlinked: the unlinkSync of checkIfRestartAfterKill succeeds
WhenReadyFs(unlinked) ==
  /\ pstate = "starting"
  /\ pstate' = "running"
  /\ tray' \in BOOLEAN
  /\ startMarker' = marker
  /\ ApplyWindow(createWindowFs(envFlag, mainWindow, readyPending,
                                isHeadlessMode, isCreatingWindow, marker,
                                unlinked))
  /\ \E o \in InstallOutcomes :
       LET r == setupRestartMechanismCall(restartMechanismSetup, platform, o)
       IN  /\ restartMechanismSetup' = r.restartMechanismSetup
           /\ supervisor' = (supervisor \/ (r.installs /\ o = "ok"))
           /\ installFailed' = (o # "ok")
           /\ timers' = IF r.rejects THEN AddTimer(timers, "relaunch")
                         ELSE timers
  /\ ipcHandlers' = TRUE
  /\ lastEvent' = "whenReady"
  /\ UNCHANGED <<platform, run, exitCode, envFlag, isQuitting, isManualQuit,
                 quitPhase, relaunchCalls, workers, forceQuitUsed,
                 showRequested, startFlag, prevExit, sec, hb, wk>>

\* the whenReady initialisation on a file system whose unlinkSync succeeds
WhenReady == WhenReadyFs(TRUE)

\* the process is killed from outside (SIGKILL): no handler runs
Kill ==
  /\ pstate = "running"
  /\ pstate' = "killed"
  /\ lastEvent' = "kill"
  /\ UNCHANGED <<platform, run, exitCode, envFlag, isQuitting, isManualQuit,
                 tray, timers, quitPhase, relaunchCalls, workers,
                 windowVars, forceQuitUsed, showRequested, fixedVars>>

\* SIGINT with the default disposition: the process is terminated
SigintDefault ==
  /\ pstate \in {"starting", "running"}
  /\ pstate' = "killed"
  /\ lastEvent' = "SIGINT"
  /\ UNCHANGED <<platform, run, exitCode, envFlag, isQuitting, isManualQuit,
                 tray, timers, quitPhase, relaunchCalls, workers,
                 windowVars, forceQuitUsed, showRequested, fixedVars>>

\* process.on('SIGINT'), registered in setupApp: the handler only logs
Sigint ==
  /\ pstate \in {"starting", "running"}
  /\ lastEvent' = "SIGINT"
  /\ UNCHANGED <<pstate, platform, run, exitCode, envFlag, isQuitting,
                 isManualQuit, tray, timers, quitPhase, relaunchCalls,
                 workers, windowVars, forceQuitUsed, showRequested,
                 fixedVars>>

\* ------------------------------------------------------ window events
\* 'closed' and 'window-all-closed' handlers that arm no timer
OnClosedTimersNone(t, q, plat, quitting) == t

\* the 'closed' handler of the window, followed by the app's
\* 'window-all-closed' handler when the app is not quitting
OnClosedTimers(t, q, plat, quitting) ==
  LET t1 == IF ~q THEN AddTimer(t, "recreate") ELSE t
  IN  IF ~quitting /\ plat # "darwin" /\ ~q THEN AddTimer(t1, "recreate") ELSE t1

\* a close handler that never vetoes
CloseVetoedNever(q) == FALSE

\* the 'close' handler of the window: TRUE when it calls preventDefault
CloseVetoed(q) == ~q

\* the timers the 'close' handler leaves behind when it vetoes
OnCloseTimers(t, plat) ==
  IF plat = "darwin" THEN t ELSE AddTimer(t, "closeRecreate")

\* a before-quit handler that vetoes every quit
BeforeQuitVetoedAlways(q) == TRUE

\* the before-quit handler: TRUE when it calls preventDefault
BeforeQuitVetoed(q) == ~q

\* a before-quit handler that marks the quit it lets pass as external
BeforeQuitManualCleared(q, m) == FALSE

\* this.isManualQuit after the before-quit handler: set when isQuitting
BeforeQuitManual(q, m) == q \/ m

\* will-quit: process.exit with the code chosen from isManualQuit
WillQuit(manual) ==
  /\ pstate' = "exited"
  /\ exitCode' = WillQuitCode(manual)

\* app.quit() with this.isQuitting = q and this.isManualQuit = m:
\* before-quit, then the windows are closed, then will-quit
AppQuit(q, m) ==
  IF quitPhase # "none"
  THEN /\ isManualQuit' = m
       /\ UNCHANGED <<mainWindow, timers, quitPhase, pstate, exitCode>>
  ELSE IF ~BeforeQuitVetoed(q)
       THEN /\ isManualQuit' = BeforeQuitManual(q, m)
            /\ UNCHANGED <<mainWindow, timers>>
            /\ IF mainWindow = "null"
               THEN WillQuit(BeforeQuitManual(q, m)) /\ UNCHANGED quitPhase
               ELSE quitPhase' = "closing" /\ UNCHANGED <<pstate, exitCode>>
       ELSE /\ isManualQuit' = m
            /\ mainWindow' = Hide(mainWindow)
            /\ timers' = IF platform # "darwin"
                         THEN AddTimer(timers, "recreate") ELSE timers
            /\ UNCHANGED <<quitPhase, pstate, exitCode>>

\* the user clicks the window's close button
CloseGesture ==
  /\ Running /\ quitPhase = "none" /\ mainWindow # "null"
  /\ platform # "darwin" => CanAdd("closeRecreate", 1)
  /\ IF CloseVetoed(isQuitting)
     THEN /\ mainWindow' = Hide(mainWindow)
          /\ timers' = OnCloseTimers(timers, platform)
          /\ UNCHANGED <<readyPending, isCreatingWindow>>
     ELSE /\ mainWindow' = "null"
          /\ readyPending' = FALSE
          /\ isCreatingWindow' = FALSE
          /\ timers' = OnClosedTimers(timers, isQuitting, platform, FALSE)
  /\ lastEvent' = "close"
  /\ UNCHANGED <<pstate, exitCode, envFlag, isQuitting, isManualQuit, tray,
                 quitPhase, relaunchCalls, workers, isHeadlessMode, marker,
                 markerWritten, forceQuitUsed, showRequested, fixedVars>>

\* Cmd+Q, menu quit or a quit signal: app.quit() not coming from Force Quit
QuitGesture ==
  /\ Running
  /\ platform # "darwin" => CanAdd("recreate", 1)
  /\ AppQuit(isQuitting, isManualQuit)
  /\ lastEvent' = "beforeQuit"
  /\ UNCHANGED <<envFlag, isQuitting, tray, relaunchCalls, workers,
                 readyPending, isHeadlessMode, isCreatingWindow, marker,
                 markerWritten, forceQuitUsed, showRequested, fixedVars>>

\* the sanctioned exit control: the force-quit IPC of the renderer or the
\* tray's Force Quit item
ForceQuit(src) ==
  /\ Running
  /\ src = "ipc" => (mainWindow # "null" /\ ipcHandlers)
  /\ src = "tray" => tray
  /\ isQuitting' = TRUE
  /\ forceQuitUsed' = TRUE
  /\ AppQuit(TRUE, TRUE)
  /\ lastEvent' = "forceQuit"
  /\ UNCHANGED <<envFlag, tray, relaunchCalls, workers, readyPending,
                 isHeadlessMode, isCreatingWindow, marker, markerWritten,
                 showRequested, fixedVars>>

\* app.quit() closes the window: 'close' (not vetoed), 'closed', will-quit
QuitCloseWindow ==
  /\ Running /\ quitPhase = "closing" /\ mainWindow # "null"
  /\ IF CloseVetoed(isQuitting)
     THEN /\ mainWindow' = Hide(mainWindow)
          /\ timers' = OnCloseTimers(timers, platform)
          /\ quitPhase' = "none"
          /\ UNCHANGED <<readyPending, isCreatingWindow, pstate, exitCode>>
     ELSE /\ mainWindow' = "null"
          /\ readyPending' = FALSE
          /\ isCreatingWindow' = FALSE
          /\ timers' = OnClosedTimers(timers, isQuitting, platform, TRUE)
          /\ WillQuit(isManualQuit)
          /\ UNCHANGED quitPhase
  /\ lastEvent' = "quitClose"
  /\ UNCHANGED <<envFlag, isQuitting, isManualQuit, tray, relaunchCalls,
                 workers, isHeadlessMode, marker, markerWritten,
                 forceQuitUsed, showRequested, fixedVars>>

\* the window is destroyed without a close gesture
WindowDestroyed ==
  /\ Running /\ quitPhase = "none" /\ mainWindow # "null"
  /\ CanAdd("recreate", 2)
  /\ mainWindow' = "null"
  /\ readyPending' = FALSE
  /\ isCreatingWindow' = FALSE
  /\ timers' = OnClosedTimers(timers, isQuitting, platform, FALSE)
  /\ lastEvent' = "closed"
  /\ UNCHANGED <<pstate, exitCode, envFlag, isQuitting, isManualQuit, tray,
                 quitPhase, relaunchCalls, workers, isHeadlessMode, marker,
                 markerWritten, forceQuitUsed, showRequested, fixedVars>>

\* 'ready-to-show' of the window (registered with once)
ReadyToShow ==
  /\ Running /\ mainWindow # "null" /\ readyPending
  /\ mainWindow' = Show(mainWindow)
  /\ readyPending' = FALSE
  /\ isCreatingWindow' = FALSE
  /\ lastEvent' = "readyToShow"
  /\ UNCHANGED <<pstate, exitCode, envFlag, isQuitting, isManualQuit, tray,
                 timers, quitPhase, relaunchCalls, workers, isHeadlessMode,
                 marker, markerWritten, forceQuitUsed, showRequested,
                 fixedVars>>

\* ------------------------------------------------------------- timers
\* the timer of the 'close' handler: createWindow unless isQuitting
CloseRecreateTimer ==
  /\ Running /\ timers["closeRecreate"] > 0
  /\ timers' = DelTimer(timers, "closeRecreate")
  /\ IF ~isQuitting
     THEN ApplyWindow(createWindow(envFlag, mainWindow, readyPending,
                                   isHeadlessMode, isCreatingWindow, marker))
     ELSE UNCHANGED windowVars
  /\ lastEvent' = "closeRecreateTimer"
  /\ UNCHANGED <<pstate, exitCode, envFlag, isQuitting, isManualQuit, tray,
                 quitPhase, relaunchCalls, workers, forceQuitUsed,
                 showRequested, fixedVars>>

\* the timer of 'closed', 'window-all-closed' and before-quit: createWindow
RecreateTimer ==
  /\ Running /\ timers["recreate"] > 0
  /\ timers' = DelTimer(timers, "recreate")
  /\ ApplyWindow(createWindow(envFlag, mainWindow, readyPending,
                              isHeadlessMode, isCreatingWindow, marker))
  /\ lastEvent' = "recreateTimer"
  /\ UNCHANGED <<pstate, exitCode, envFlag, isQuitting, isManualQuit, tray,
                 quitPhase, relaunchCalls, workers, forceQuitUsed,
                 showRequested, fixedVars>>

\* a restartApp without setTimeout: relaunch and exit in the fault's step
FaultNoDelay ==
  /\ Running
  /\ relaunchCalls' = relaunchCalls + 1
  /\ isQuitting' = TRUE
  /\ pstate' = "exited"
  /\ exitCode' = RestartExitCode
  /\ mainWindow' = "null"
  /\ readyPending' = FALSE
  /\ isCreatingWindow' = FALSE
  /\ lastEvent' = "fault"
  /\ UNCHANGED <<envFlag, isManualQuit, tray, timers, quitPhase, workers,
                 isHeadlessMode, marker, markerWritten, forceQuitUsed,
                 showRequested, fixedVars>>

\* uncaughtException / unhandledRejection: restartApp() arms its timer
Fault ==
  /\ Running
  /\ CanAdd("relaunch", 1)
  /\ timers' = AddTimer(timers, "relaunch")
  /\ lastEvent' = "fault"
  /\ UNCHANGED <<pstate, exitCode, envFlag, isQuitting, isManualQuit, tray,
                 quitPhase, relaunchCalls, workers, windowVars,
                 forceQuitUsed, showRequested, fixedVars>>

\* a restartApp that records the fault by clearing the manual-quit flag
RelaunchTimerClearsManual ==
  /\ Running /\ timers["relaunch"] > 0
  /\ timers' = DelTimer(timers, "relaunch")
  /\ relaunchCalls' = relaunchCalls + 1
  /\ isQuitting' = TRUE
  /\ isManualQuit' = FALSE
  /\ pstate' = "exited"
  /\ exitCode' = RestartExitCode
  /\ mainWindow' = "null"
  /\ readyPending' = FALSE
  /\ isCreatingWindow' = FALSE
  /\ lastEvent' = "relaunchTimer"
  /\ UNCHANGED <<envFlag, tray, quitPhase, workers, isHeadlessMode, marker,
                 markerWritten, forceQuitUsed, showRequested, fixedVars>>

\* the timer of restartApp: app.relaunch(); isQuitting = true; app.exit(0)
RelaunchTimer ==
  /\ Running /\ timers["relaunch"] > 0
  /\ timers' = DelTimer(timers, "relaunch")
  /\ relaunchCalls' = relaunchCalls + 1
  /\ isQuitting' = TRUE
  /\ pstate' = "exited"
  /\ exitCode' = RestartExitCode
  /\ mainWindow' = "null"
  /\ readyPending' = FALSE
  /\ isCreatingWindow' = FALSE
  /\ lastEvent' = "relaunchTimer"
  /\ UNCHANGED <<envFlag, isManualQuit, tray, quitPhase, workers,
                 isHeadlessMode, marker, markerWritten, forceQuitUsed,
                 showRequested, fixedVars>>

\* ------------------------------------------------------ show requests
ShowSources == {"SIGUSR1", "trayShow", "trayDoubleClick"}

\* a showUI that leaves process.env.LAUNCH_AGENT_RESTART as it is
DeleteEnvFlagKept(flag) == flag

\* delete process.env.LAUNCH_AGENT_RESTART: the flag afterwards
DeleteEnvFlag(flag) == FALSE

\* showUI(), called from SIGUSR1, the tray's Show App and its double-click
ShowUI(src) ==
  /\ Running
  /\ src = "SIGUSR1" => platform # "win32"
  /\ src # "SIGUSR1" => tray
  /\ envFlag' = DeleteEnvFlag(envFlag)
  /\ showRequested' = TRUE
  /\ IF mainWindow = "null"
     THEN IF isCreatingWindow
          THEN /\ isHeadlessMode' = FALSE
               /\ UNCHANGED <<mainWindow, readyPending, isCreatingWindow,
                              marker, markerWritten>>
          ELSE ApplyWindow(createWindow(DeleteEnvFlag(envFlag), mainWindow,
                                        readyPending, FALSE,
                                        isCreatingWindow, marker))
     ELSE /\ isHeadlessMode' = FALSE
          /\ mainWindow' = Show(mainWindow)
          /\ UNCHANGED <<readyPending, isCreatingWindow, marker,
                         markerWritten>>
  /\ lastEvent' = src
  /\ UNCHANGED <<pstate, exitCode, isQuitting, isManualQuit, tray, timers,
                 quitPhase, relaunchCalls, workers, forceQuitUsed,
                 fixedVars>>

\* the app's 'activate' handler (dock icon, macOS)
Activate ==
  /\ Running /\ platform = "darwin"
  /\ IF envFlag
     THEN UNCHANGED <<envFlag, showRequested, windowVars>>
     ELSE IF isHeadlessMode \/ mainWindow = "null"
          THEN /\ envFlag' = FALSE
               /\ showRequested' = TRUE
               /\ ApplyWindow(createWindow(FALSE, mainWindow, readyPending,
                                           FALSE, isCreatingWindow, marker))
          ELSE /\ mainWindow' = Show(mainWindow)
               /\ showRequested' = TRUE
               /\ UNCHANGED <<envFlag, readyPending, isHeadlessMode,
                              isCreatingWindow, marker, markerWritten>>
  /\ lastEvent' = "activate"
  /\ UNCHANGED <<pstate, exitCode, isQuitting, isManualQuit, tray, timers,
                 quitPhase, relaunchCalls, workers, forceQuitUsed,
                 fixedVars>>

\* the user minimizes the window (minimizable: true)
Minimize ==
  /\ Running /\ mainWindow = "visible"
  /\ mainWindow' = "minimized"
  /\ lastEvent' = "minimize"
  /\ UNCHANGED <<pstate, exitCode, envFlag, isQuitting, isManualQuit, tray,
                 timers, quitPhase, relaunchCalls, workers, readyPending,
                 isHeadlessMode, isCreatingWindow, marker, markerWritten,
                 forceQuitUsed, showRequested, platform, run, startFlag,
                 startMarker, prevExit, restartMechanismSetup, supervisor,
                 sec, hb, wk, ipcHandlers, installFailed>>

\* the 'second-instance' handler of the primary: restore() when minimized,
\* then focus(), which leaves a window that is not visible as it is
SecondInstanceWindow(mw) == IF mw = "minimized" THEN "visible" ELSE mw

\* a second launch while this process holds the lock: the secondary runs
\* setupApp without the lock, the primary gets 'second-instance'
SecondInstance ==
  /\ Running
  /\ sec' = [ran |-> TRUE, quit |-> setupApp(FALSE).quit,
              handlers |-> setupApp(FALSE).handlers,
              whenReady |-> setupApp(FALSE).whenReady]
  /\ mainWindow' = SecondInstanceWindow(mainWindow)
  /\ lastEvent' = "secondInstance"
  /\ UNCHANGED <<pstate, exitCode, envFlag, isQuitting, isManualQuit, tray,
                 timers, quitPhase, relaunchCalls, workers, readyPending,
                 isHeadlessMode, isCreatingWindow, marker, markerWritten,
                 forceQuitUsed, showRequested, platform, run, startFlag,
                 startMarker, prevExit, restartMechanismSetup, supervisor,
                 hb, wk, ipcHandlers, installFailed>>

\* the tray's Hide App item
TrayHide ==
  /\ Running /\ tray
  /\ mainWindow' = Hide(mainWindow)
  /\ lastEvent' = "trayHide"
  /\ UNCHANGED <<pstate, exitCode, envFlag, isQuitting, isManualQuit, tray,
                 timers, quitPhase, relaunchCalls, workers, readyPending,
                 isHeadlessMode, isCreatingWindow, marker, markerWritten,
                 forceQuitUsed, showRequested, fixedVars>>

Next ==
  \/ \E flag \in BOOLEAN : Launch(flag)
  \/ SupervisorRelaunch
  \/ WhenReady
  \/ Kill
  \/ CloseGesture
  \/ QuitGesture
  \/ \E src \in {"ipc", "tray"} : ForceQuit(src)
  \/ QuitCloseWindow
  \/ WindowDestroyed
  \/ ReadyToShow
  \/ CloseRecreateTimer
  \/ RecreateTimer
  \/ Fault
  \/ RelaunchTimer
  \/ \E src \in ShowSources : ShowUI(src)
  \/ Activate
  \/ TrayHide
  \/ Minimize
  \/ SecondInstance

Spec == Init /\ [][Next]_vars


\* ------------------------------------------------- background task runs
\* resolve(v) of the promise of a run: a settled promise ignores it
ResolveLastWins(w, v) ==
  [w EXCEPT !.settled = TRUE, !.result = v, !.settles = @ + 1,
            !.atSettle = Len(w.log)]

Resolve(w, v) ==
  IF w.settled THEN w
  ELSE [w EXCEPT !.settled = TRUE, !.result = v, !.settles = @ + 1,
                 !.atSettle = Len(w.log)]

\* the value the worker's 'close' handler resolves with
CloseResult(code, signal) ==
  [from |-> "close", success |-> TRUE, code |-> code, signal |-> signal]

\* the value the worker's 'error' handler resolves with
ErrorResult ==
  [from |-> "error", success |-> FALSE, code |-> 0, signal |-> FALSE]

\* an exception inside the promise's executor rejects the promise
RejectResult ==
  [from |-> "reject", success |-> FALSE, code |-> 0, signal |-> FALSE]

\* spawn(): "ok"; "emitsError": the child is returned with its pipes and
\* 'error' follows (ENOENT, EACCES, EAGAIN); "noStdio": the child is returned
\* without stdout/stderr and 'error' follows (EMFILE, ENFILE); "throws":
\* spawn itself throws (any other errno)
SpawnOutcomes == {"ok", "emitsError", "noStdio", "throws"}

\* the executor of the promise, from spawn() to worker.on('error'):
\* worker.stdout.on throws when the child has no stdout, and then neither
\* 'close' nor 'error' gets a handler
Executor(w, outcome) ==
  CASE outcome = "ok" -> [w EXCEPT !.spawn = outcome, !.proc = "running"]
    [] outcome = "emitsError" ->
         [w EXCEPT !.spawn = outcome, !.proc = "failing"]
    [] outcome = "noStdio" ->
         [Resolve(w, RejectResult)
            EXCEPT !.spawn = outcome, !.proc = "failingUnheard"]
    [] outcome = "throws" ->
         [Resolve(w, RejectResult) EXCEPT !.spawn = outcome, !.proc = "threw"]

Unused == {i \in 1..MaxWorkers : workers[i].proc = "unused"}
Live == {i \in 1..MaxWorkers : workers[i].proc = "running"}

taskFrame == <<lifeVars, histVars, hb, wk>>

\* ipcMain.handle('start-heavy-task'): spawn a worker, register handlers
StartHeavyTask(outcome) ==
  /\ Running /\ mainWindow # "null" /\ ipcHandlers
  /\ Unused # {}
  /\ LET i == CHOOSE j \in Unused : \A k \in Unused : j <= k
     IN  workers' = [workers EXCEPT ![i] = Executor(@, outcome)]
  /\ lastEvent' = "startHeavyTask"
  /\ UNCHANGED taskFrame

\* the worker's console.log: one more chunk in the stdout pipe
WorkerEmit(i) ==
  /\ Running
  /\ workers[i].proc = "running"
  /\ workers[i].emitted < MaxChunks
  /\ workers' = [workers EXCEPT
                   ![i].emitted = @ + 1,
                   ![i].pipe = Append(@, workers[i].emitted + 1)]
  /\ lastEvent' = "workerEmit"
  /\ UNCHANGED taskFrame

\* worker.stdout 'data': the oldest unread chunk is logged
WorkerData(i) ==
  /\ Running
  /\ workers[i].proc = "running"
  /\ workers[i].pipe # <<>>
  /\ workers' = [workers EXCEPT
                   ![i].log = Append(@, Head(workers[i].pipe)),
                   ![i].pipe = Tail(@)]
  /\ lastEvent' = "workerData"
  /\ UNCHANGED taskFrame

\* 'close' comes after the process ended and its stdio streams were read to
\* their end ('exit' can come while output is still unread)
StreamsClosedAtExit(w) == TRUE

StreamsClosed(w) == w.pipe = <<>>

\* a 'close' handler that spawns the worker again after a failure
WorkerCloseRetries(i, code, signal) ==
  /\ Running
  /\ workers[i].proc \in {"running", "errored"}
  /\ workers[i].proc = "errored" <=> code < 0
  /\ signal => code = 0 /\ workers[i].proc = "running"
  /\ StreamsClosed(workers[i])
  /\ workers' = [workers EXCEPT
                   ![i] = IF code # 0
                          THEN [@ EXCEPT !.proc = "running"]
                          ELSE [Resolve(@, CloseResult(code, signal))
                                  EXCEPT !.proc = "closed",
                                         !.sawClose = TRUE,
                                         !.closeCode = code,
                                         !.closeSignal = signal]]
  /\ lastEvent' = "workerClose"
  /\ UNCHANGED taskFrame

\* worker 'close' with its exit code (code null and a signal when killed by
\* a signal; a negative code after a failed spawn)
WorkerClose(i, code, signal) ==
  /\ Running
  /\ workers[i].proc \in {"running", "errored"}
  /\ workers[i].proc = "errored" <=> code < 0
  /\ signal => code = 0 /\ workers[i].proc = "running"
  /\ StreamsClosed(workers[i])
  /\ workers' = [workers EXCEPT
                   ![i] = [Resolve(@, CloseResult(code, signal))
                             EXCEPT !.proc = "closed", !.sawClose = TRUE,
                                    !.closeCode = code,
                                    !.closeSignal = signal]]
  /\ lastEvent' = "workerClose"
  /\ UNCHANGED taskFrame

\* worker 'error': the spawn failed
WorkerError(i) ==
  /\ Running
  /\ workers[i].proc = "failing"
  /\ workers' = [workers EXCEPT
                   ![i] = [Resolve(@, ErrorResult)
                             EXCEPT !.proc = "errored", !.sawError = TRUE]]
  /\ lastEvent' = "workerError"
  /\ UNCHANGED taskFrame

\* worker 'error' with no handler registered: the emit throws, the
\* uncaughtException handler calls restartApp(), which arms its timer
WorkerErrorUnheard(i) ==
  /\ Running
  /\ workers[i].proc = "failingUnheard"
  /\ CanAdd("relaunch", 1)
  /\ workers' = [workers EXCEPT ![i].proc = "erroredUnheard"]
  /\ timers' = AddTimer(timers, "relaunch")
  /\ lastEvent' = "workerErrorUnheard"
  /\ UNCHANGED <<pstate, exitCode, envFlag, isQuitting, isManualQuit, tray,
                 quitPhase, relaunchCalls, windowVars, forceQuitUsed,
                 showRequested, fixedVars>>

TaskNext ==
  \/ \E outcome \in SpawnOutcomes : StartHeavyTask(outcome)
  \/ \E i \in 1..MaxWorkers : WorkerEmit(i)
  \/ \E i \in 1..MaxWorkers : WorkerData(i)
  \/ \E i \in 1..MaxWorkers, code \in WorkerExitCodes \cup {-2},
        signal \in BOOLEAN : WorkerClose(i, code, signal)
  \/ \E i \in 1..MaxWorkers : WorkerError(i)
  \/ \E i \in 1..MaxWorkers : WorkerErrorUnheard(i)
  \/ RelaunchTimer

\* the controller after a manual launch, with its window shown: the state in
\* which the renderer can invoke start-heavy-task
TaskInit ==
  /\ platform \in Platforms
  /\ run = 1
  /\ pstate = "running"
  /\ exitCode = 0
  /\ envFlag = FALSE
  /\ isQuitting = FALSE
  /\ isManualQuit = FALSE
  /\ isHeadlessMode = FALSE
  /\ isCreatingWindow = FALSE
  /\ mainWindow = "visible"
  /\ readyPending = FALSE
  /\ tray \in BOOLEAN
  /\ timers = NoTimers
  /\ marker = FALSE
  /\ quitPhase = "none"
  /\ relaunchCalls = 0
  /\ \E o \in InstallOutcomes :
       /\ restartMechanismSetup = InstallFlag(platform, o)
       /\ supervisor = (o = "ok")
       /\ installFailed = (o # "ok")
  /\ sec = NoSecondary
  /\ ipcHandlers = TRUE
  /\ workers = NoWorkers
  /\ forceQuitUsed = FALSE
  /\ showRequested = FALSE
  /\ startFlag = FALSE
  /\ startMarker \in BOOLEAN
  /\ markerWritten = FALSE
  /\ prevExit = "down"
  /\ lastEvent = "readyToShow"
  /\ hb = HbStart
  /\ wk = WkStart

TaskSpec == TaskInit /\ [][TaskNext]_vars

\* one process from its shown window to its end: faults, quit and close
\* gestures, Force Quit, SIGINT, kill and the timers; the event loop runs a
\* due callback of restartApp's setTimeout
\* a restartApp timer that expired together with the one that called
\* app.exit(0): app.exit returns to its caller (the process ends when the
\* message loop quits) and the timers pass runs every expired callback, so
\* this callback calls app.relaunch() and app.exit(0) once more
RelaunchTimerLate ==
  /\ pstate = "exited" /\ lastEvent \in {"relaunchTimer", "relaunchTimerLate"}
  /\ timers["relaunch"] > 0
  /\ timers' = DelTimer(timers, "relaunch")
  /\ relaunchCalls' = relaunchCalls + 1
  /\ isQuitting' = TRUE
  /\ exitCode' = RestartExitCode
  /\ lastEvent' = "relaunchTimerLate"
  /\ UNCHANGED <<pstate, envFlag, isManualQuit, tray, quitPhase, workers,
                 windowVars, forceQuitUsed, showRequested, fixedVars>>

FaultNext ==
  \/ Fault
  \/ RelaunchTimer
  \/ RelaunchTimerLate
  \/ Kill
  \/ CloseGesture
  \/ QuitGesture
  \/ \E src \in {"ipc", "tray"} : ForceQuit(src)
  \/ QuitCloseWindow
  \/ CloseRecreateTimer
  \/ RecreateTimer
  \/ Sigint

FaultSpec == TaskInit /\ [][FaultNext]_vars /\ WF_vars(RelaunchTimer)

\* ------------------------------------- heartbeat variant and its monitor
appVars == <<lifeVars, workers, histVars, lastEvent, wk>>

\* constructor: cleanupQuitSignal() removes the signal file
HbCleanupQuitSignal(i) ==
  /\ hb.inst[i] = "spawned"
  /\ hb' = [hb EXCEPT !.inst[i] = "cleaned", !.quitSignal = FALSE,
                      !.removed = IF hb.quitSignal THEN @ \cup {i} ELSE @,
                      !.last = "cleanupQuitSignal"]
  /\ UNCHANGED appVars

\* a lock that is granted to every process that asks
requestSingleInstanceLockAlways(lock, i) ==
  [gotTheLock |-> TRUE, lock |-> i]

\* app.requestSingleInstanceLock() of process i: granted when nobody holds it
requestSingleInstanceLock(lock, i) ==
  [gotTheLock |-> lock = 0, lock |-> IF lock = 0 THEN i ELSE lock]

\* setupApp: requestSingleInstanceLock(); without the lock app.quit()
HbRequestLock(i) ==
  /\ hb.inst[i] = "cleaned"
  /\ LET r == requestSingleInstanceLock(hb.lock, i)
     IN  hb' = IF setupApp(r.gotTheLock).whenReady
               THEN [hb EXCEPT !.inst[i] = "ready", !.lock = r.lock,
                               !.last = "gotTheLock"]
               ELSE [hb EXCEPT !.inst[i] = "exited", !.lock = r.lock,
                               !.secondary = @ \cup {i},
                               !.last = "noLock"]
  /\ UNCHANGED appVars

\* whenReady: createWindow, setupRestartMechanism -> startHeartbeat()
HbStartHeartbeat(i) ==
  /\ hb.inst[i] = "ready"
  /\ hb' = [hb EXCEPT !.inst[i] = "running", !.heartbeat = "fresh",
                      !.last = "startHeartbeat"]
  /\ UNCHANGED appVars

\* the setInterval callback of startHeartbeat
HbBeat(i) ==
  /\ hb.inst[i] = "running"
  /\ hb.heartbeat # "fresh"
  /\ hb' = [hb EXCEPT !.heartbeat = "fresh", !.last = "beat"]
  /\ UNCHANGED appVars

\* time passes: TIME_DIFF of the monitor reaches 2
HbAge ==
  /\ hb.heartbeat = "fresh"
  /\ hb' = [hb EXCEPT !.heartbeat = "stale", !.last = "age"]
  /\ UNCHANGED appVars

\* this.restartMechanismSetup of instance i: set when setupRestartMechanism
\* returned from setupMacOSRestart, which starts the heartbeat
HbSetup(i) == hb.inst[i] \in {"running", "hbStopped", "signalled"}

\* the instances whose heartbeat interval is active
ActiveIntervals == {i \in Instances : hb.inst[i] = "running"}

\* force-quit, first step: stopHeartbeat() clears the interval and unlinks
\* the heartbeat file
HbStopHeartbeat(i) ==
  /\ hb.inst[i] = "running"
  /\ hb' = [hb EXCEPT !.inst[i] = "hbStopped", !.heartbeat = "absent",
                      !.last = "stopHeartbeat"]
  /\ UNCHANGED appVars

\* force-quit, second step: the signal file is written
HbWriteSignal(i) ==
  /\ hb.inst[i] = "hbStopped"
  /\ hb' = [hb EXCEPT !.inst[i] = "signalled", !.quitSignal = TRUE,
                      !.last = "writeSignal"]
  /\ UNCHANGED appVars

\* force-quit, last step: app.quit() with isQuitting set ends the process
HbQuit(i) ==
  /\ hb.inst[i] = "signalled"
  /\ hb' = [hb EXCEPT !.inst[i] = "exited", !.lock = 0, !.forceQuit = TRUE,
                      !.last = "quit"]
  /\ UNCHANGED appVars

\* the process is killed or crashes: its heartbeat file stays
HbKill(i) ==
  /\ hb.inst[i] = "running"
  /\ hb' = [hb EXCEPT !.inst[i] = "exited", !.lock = 0, !.last = "kill"]
  /\ UNCHANGED appVars

\* monitor: if [ -f "$QUIT_SIGNAL" ] then exit 0
MonitorCheckSignal ==
  /\ hb.monitor = "checkSignal"
  /\ hb' = [hb EXCEPT
              !.monitor = IF hb.quitSignal THEN "stopped" ELSE "checkHeartbeat",
              !.last = "checkSignal"]
  /\ UNCHANGED appVars

\* monitor: a fresh heartbeat file means alive
MonitorAlive ==
  /\ hb.monitor = "checkHeartbeat"
  /\ hb.heartbeat = "fresh"
  /\ hb' = [hb EXCEPT !.monitor = "sleep", !.last = "alive"]
  /\ UNCHANGED appVars

\* monitor: start_app when the heartbeat file is stale or missing
MonitorStartApp ==
  /\ hb.monitor = "checkHeartbeat"
  /\ hb.heartbeat # "fresh"
  /\ \E i \in Instances :
       /\ hb.inst[i] = "none"
       /\ \A j \in Instances : hb.inst[j] = "none" => i <= j
       /\ hb' = [hb EXCEPT !.monitor = "sleep", !.inst[i] = "spawned",
                           !.launches = @ + 1, !.last = "startApp"]
  /\ UNCHANGED appVars

\* the user starts the application by hand
HbLaunch ==
  /\ \E i \in Instances :
       /\ hb.inst[i] = "none"
       /\ \A j \in Instances : hb.inst[j] = "none" => i <= j
       /\ hb' = [hb EXCEPT !.inst[i] = "spawned", !.last = "launch"]
  /\ UNCHANGED appVars

\* monitor: sleep 0.5
MonitorSleep ==
  /\ hb.monitor = "sleep"
  /\ hb' = [hb EXCEPT !.monitor = "checkSignal", !.last = "sleep"]
  /\ UNCHANGED appVars

HbNext ==
  \/ \E i \in Instances : HbCleanupQuitSignal(i)
  \/ \E i \in Instances : HbRequestLock(i)
  \/ \E i \in Instances : HbStartHeartbeat(i)
  \/ \E i \in Instances : HbBeat(i)
  \/ HbAge
  \/ \E i \in Instances : HbStopHeartbeat(i)
  \/ \E i \in Instances : HbWriteSignal(i)
  \/ \E i \in Instances : HbQuit(i)
  \/ \E i \in Instances : HbKill(i)
  \/ MonitorCheckSignal
  \/ MonitorAlive
  \/ MonitorStartApp
  \/ MonitorSleep
  \/ HbLaunch

\* the monitor script was started on macOS and no instance is running
HbInit ==
  /\ Init
  /\ platform = "darwin"
  /\ ~marker

HbSpec == HbInit /\ [][HbNext]_vars

\* ----------------------------------------------------- the worker process
workerFrame == <<lifeVars, workers, histVars, lastEvent, hb>>

\* what node does with the worker after an 'error' event nobody listens to
\* or a rejection of runTask nobody handles: it ends with code 1
UncaughtExit(w) == [w EXCEPT !.pc = "exited", !.failed = TRUE, !.code = 1]

\* runTask: the first lines, then generateLargePrimes is awaited
WkBegin ==
  /\ wk.pc = "start"
  /\ wk' = [wk EXCEPT !.pc = "primes"]
  /\ UNCHANGED workerFrame

\* a loop of generateLargePrimes or processLargeJsonDataset sleeps
WkYield ==
  /\ wk.pc \in {"primes", "json"}
  /\ wk.yields < MaxYields
  /\ wk' = [wk EXCEPT !.yields = @ + 1]
  /\ UNCHANGED workerFrame

\* generateLargePrimes returns: generateRandomDataFile is awaited
WkPrimesDone ==
  /\ wk.pc = "primes"
  /\ wk' = [wk EXCEPT !.pc = "file", !.yields = 0,
                      !.done = Append(@, "primes")]
  /\ UNCHANGED workerFrame

\* a write callback that goes on after an error
writeCallbackIgnoresError(w, error) == [w EXCEPT !.written = @ + 1,
                                                 !.failed = @ \/ error]

\* the callback of writeStream.write: reject on error, else count the chunk
\* and schedule the next one
writeCallback(w, error) ==
  IF error THEN UncaughtExit(w) ELSE [w EXCEPT !.written = @ + 1]

\* generateRandomDataFile: writeChunk writes one chunk
WkWriteChunk(error) ==
  /\ wk.pc = "file"
  /\ wk.written < MaxWrites
  /\ wk' = writeCallback(wk, error)
  /\ UNCHANGED workerFrame

\* writeChunk with written >= totalSize: end the stream and resolve;
\* processLargeJsonDataset is awaited
WkFileDone ==
  /\ wk.pc = "file"
  /\ wk.written >= MaxWrites
  /\ wk' = [wk EXCEPT !.pc = "json", !.done = Append(@, "file")]
  /\ UNCHANGED workerFrame

\* processLargeJsonDataset returns, or throws (allocation failure);
\* performComplexCalculations is awaited
WkJsonDone(error) ==
  /\ wk.pc = "json"
  /\ wk' = IF error THEN UncaughtExit(wk)
           ELSE [wk EXCEPT !.pc = "calc", !.yields = 0,
                           !.done = Append(@, "json")]
  /\ UNCHANGED workerFrame

\* performComplexCalculations returns
WkCalcDone ==
  /\ wk.pc = "calc"
  /\ wk' = [wk EXCEPT !.pc = "end", !.done = Append(@, "calc")]
  /\ UNCHANGED workerFrame

\* the last line of runTask: process.exit(0)
WkExit ==
  /\ wk.pc = "end"
  /\ wk' = [wk EXCEPT !.pc = "exited", !.code = 0]
  /\ UNCHANGED workerFrame

WorkerNext ==
  \/ WkBegin
  \/ WkYield
  \/ WkPrimesDone
  \/ \E error \in BOOLEAN : WkWriteChunk(error)
  \/ WkFileDone
  \/ \E error \in BOOLEAN : WkJsonDone(error)
  \/ WkCalcDone
  \/ WkExit

\* a worker process started by a controller that shows its window
WorkerSpec == TaskInit /\ [][WorkerNext]_vars

\* ================================================================ claims

Gestures == {"close", "beforeQuit"}

\* C1: a window-close or quit-all gesture of a process in which Force Quit
\* was never invoked is vetoed: the process is still running, no quit is in
\* progress, and a window that existed is Visible or Hidden afterwards.
C1_GesturesVetoed ==
  [][(lastEvent' \in Gestures /\ ~forceQuitUsed)
       => /\ pstate' = "running"
          /\ quitPhase' = "none"
          /\ mainWindow # "null" => mainWindow' \in {"visible", "hidden"}]_vars

C1_Witness ==
  /\ lastEvent \in Gestures /\ ~forceQuitUsed
  /\ pstate = "running" /\ mainWindow = "hidden" /\ timers["recreate"] > 0

\* C2: a process that terminated by itself (will-quit or restartApp) has
\* exit code 0 exactly when Force Quit was invoked in it.
C2_ExitZeroIffForceQuit ==
  pstate = "exited" => (exitCode = 0 <=> forceQuitUsed)

\* C3: after an uncaught fault the process relaunches itself and terminates
\* with a non-zero exit code, without recording a manual quit.
C3_FaultExitsAbnormally ==
  (pstate = "exited" /\ lastEvent = "relaunchTimer" /\ ~forceQuitUsed)
    => (relaunchCalls > 0 /\ ~isManualQuit /\ exitCode # 0)

\* C4: once Force Quit has set isQuitting and isManualQuit, no later step of
\* the same process clears either flag.
C4_QuitIntentWriteOnce ==
  [][(forceQuitUsed /\ isQuitting /\ isManualQuit /\ run' = run)
       => (isQuitting' /\ isManualQuit')]_vars

C4_Witness ==
  /\ forceQuitUsed /\ isQuitting /\ isManualQuit
  /\ lastEvent = "relaunchTimer" /\ pstate = "exited"

\* C5: at most one worker process is running at any time.
C5_AtMostOneWorker ==
  Cardinality(Live) <= 1

\* C6: the promise of a run takes a value at most once, it has taken one as
\* soon as 'close' or 'error' was observed, and when both were observed the
\* value is the one of the first ('error').
C6_SettlesOnce ==
  \A i \in 1..MaxWorkers :
    /\ workers[i].settles <= 1
    /\ workers[i].settled <=> workers[i].settles = 1
    /\ (workers[i].sawClose \/ workers[i].sawError) => workers[i].settled
    /\ workers[i].sawError => workers[i].result = ErrorResult
    /\ (workers[i].sawClose /\ ~workers[i].sawError)
         => workers[i].result.from = "close"

C6_Witness ==
  \E i \in 1..MaxWorkers :
    /\ workers[i].sawError /\ workers[i].sawClose
    /\ workers[i].settles = 1 /\ workers[i].log = <<>>
    /\ \E j \in 1..MaxWorkers : workers[j].log # <<>> /\ workers[j].sawClose

\* C7: a worker that closed with a non-zero exit code or was killed by a
\* signal yields a result with success = false carrying the exit code.
C7_AbnormalExitFails ==
  \A i \in 1..MaxWorkers :
    (workers[i].sawClose /\ ~workers[i].sawError
       /\ (workers[i].result.code # 0 \/ workers[i].result.signal))
      => (~workers[i].result.success /\ workers[i].result.from = "close")

\* C8: a process launched with LAUNCH_AGENT_RESTART=1 creates its window at
\* startup when the marker exists, and otherwise has no window and is
\* headless for as long as no show request has arrived.
C8_SupervisorStartup ==
  (pstate = "running" /\ startFlag /\ ~showRequested)
    => IF startMarker
       THEN lastEvent = "whenReady" => (mainWindow # "null" /\ readyPending)
       ELSE mainWindow = "null" /\ isHeadlessMode

\* C9: the launch under the supervisor flag that follows a killed run finds
\* the marker and creates the window without a show request.
C9_KilledRunShowsNext ==
  (pstate = "running" /\ lastEvent = "whenReady" /\ startFlag
     /\ prevExit = "killed")
    => (startMarker /\ mainWindow # "null" /\ ~isHeadlessMode)

\* C10: every process that finished its startup has written the marker, and
\* no window exists in a process that has not written it.
C10_MarkerWrittenAtStartup ==
  pstate = "running" => markerWritten

\* C11: a process that exited cleanly after Force Quit has left no marker
\* behind.
C11_CleanExitRemovesMarker ==
  (pstate = "exited" /\ forceQuitUsed /\ exitCode = 0) => ~marker

\* C12: Force Quit is not vetoed: the step that invokes it starts closing
\* the window or exits, the window's close during that quit is not vetoed
\* either, and a process in which it was invoked exits with code 0.
C12_ForceQuitExitsClean ==
  [][/\ lastEvent' = "forceQuit"
          => (quitPhase' = "closing" \/ pstate' = "exited")
     /\ (lastEvent' = "quitClose" /\ forceQuitUsed)
          => (pstate' = "exited" /\ mainWindow' = "null")
     /\ (forceQuitUsed' /\ pstate' = "exited") => exitCode' = 0]_vars

C12_Witness ==
  /\ lastEvent = "quitClose" /\ forceQuitUsed
  /\ pstate = "exited" /\ exitCode = 0 /\ isManualQuit

\* C13: the installed OS mechanism never starts the application again after
\* a process that exited with code 0 through Force Quit.
C13_NoRelaunchAfterCleanExit ==
  [][lastEvent' = "supervisorLaunch"
       => ~(pstate = "exited" /\ exitCode = 0 /\ forceQuitUsed)]_vars

\* C14: once a force-quit handler of the heartbeat variant has run to its
\* end (heartbeat stopped, signal file written, app.quit called), the monitor
\* never starts the application again.
C14_MonitorStopsAfterForceQuit ==
  [][hb.forceQuit => hb'.launches = hb.launches]_vars

\* C15: a launch that did not get the lock only quits: it registers no
\* handler and schedules no whenReady initialisation (tray, window,
\* supervisor, IPC, workers), and it leaves the primary running.
C15_SecondaryOnlyQuits ==
  sec.ran => (sec.quit /\ ~sec.handlers /\ ~sec.whenReady /\ pstate # "starting")

C15_Witness ==
  sec.ran /\ lastEvent = "secondInstance" /\ pstate = "running"

\* C16: after 'second-instance' the primary's window is visible.
C16_SecondInstanceShowsWindow ==
  lastEvent = "secondInstance" => mainWindow = "visible"

\* C17: every show request (showUI from SIGUSR1 or the tray, or the app's
\* activate event) that reaches a headless instance creates its window.
C17_HeadlessShowsOnRequest ==
  [][(pstate = "running" /\ isHeadlessMode /\ mainWindow = "null"
        /\ lastEvent' \in ShowSources \cup {"activate"})
       => (mainWindow' # "null" /\ ~isHeadlessMode')]_vars

\* C18: a worker that was spawned, wrote its chunks and closed with code 0
\* resolved the promise once with {success: true, code: 0}, and every chunk
\* it wrote was logged, in the order written, before the promise resolved.
C18_CleanRunResolvesOnce ==
  \A i \in 1..MaxWorkers :
    (workers[i].spawn = "ok" /\ workers[i].sawClose
       /\ workers[i].closeCode = 0 /\ ~workers[i].closeSignal)
      => /\ workers[i].result = CloseResult(0, FALSE)
         /\ workers[i].settles = 1
         /\ workers[i].log = [k \in 1..workers[i].emitted |-> k]
         /\ workers[i].atSettle = workers[i].emitted

C18_Witness ==
  \E i \in 1..MaxWorkers :
    /\ workers[i].spawn = "ok" /\ workers[i].sawClose
    /\ workers[i].closeCode = 0 /\ ~workers[i].closeSignal
    /\ workers[i].emitted >= 2 /\ workers[i].result.success

\* C19: a run whose spawn failed never rejects its promise: when the promise
\* has a value it is {success: false, error}, also after 'close'.
C19_SpawnFailureResolves ==
  \A i \in 1..MaxWorkers :
    (workers[i].spawn \in SpawnOutcomes \ {"ok"} /\ workers[i].settled)
      => workers[i].result = ErrorResult

\* C20: whatever the task runs do (start, output, close with any code, spawn
\* error), the controller keeps running with its quit-intent flags, window,
\* headless mode and marker as they were when the first run was started.
C20_TaskEventsKeepLifecycle ==
  /\ pstate = "running"
  /\ ~isQuitting /\ ~isManualQuit
  /\ mainWindow = "visible"
  /\ ~isHeadlessMode
  /\ ~marker

\* C21: a startup whose installer failed (threw, or its command reported an
\* error) ends with the process running, a window or deliberate headless
\* mode, the IPC handlers registered and no relaunch timer armed.
C21_InstallFailureKeepsRunning ==
  (lastEvent = "whenReady" /\ installFailed)
    => /\ pstate = "running"
       /\ ipcHandlers
       /\ mainWindow # "null" \/ isHeadlessMode
       /\ timers["relaunch"] = 0

C21_Witness ==
  /\ lastEvent = "whenReady" /\ installFailed
  /\ platform = "darwin" /\ ~restartMechanismSetup /\ ~supervisor
  /\ pstate = "running" /\ ipcHandlers

\* the instances that went past the lock check and have not ended
Primaries ==
  {i \in Instances : hb.inst[i] \in {"ready", "running", "hbStopped",
                                     "signalled"}}

\* C22: whatever the order of launches (by hand, by the monitor while an
\* instance is alive), at most one process is past the lock check, and it is
\* the holder of the lock.
C22_OnePrimary ==
  /\ Cardinality(Primaries) <= 1
  /\ \A i \in Primaries : hb.lock = i

C22_Witness ==
  \E i, j \in Instances :
    /\ i # j /\ hb.inst[i] = "running" /\ hb.lock = i
    /\ hb.inst[j] = "exited" /\ hb.last = "noLock"

\* C23: when the timer armed by 'closed' fires in a process whose window
\* was destroyed while it was not quitting, createWindow makes a window
\* (shown by 'ready-to-show') and the process keeps running, whatever
\* LAUNCH_AGENT_RESTART is.
C23_DestroyedWindowRecreated ==
  [][(lastEvent' = "recreateTimer" /\ mainWindow = "null"
        /\ ~isHeadlessMode /\ ~isQuitting)
       => (mainWindow' # "null" /\ readyPending' /\ pstate' = "running")]_vars

\* C24: a vetoed quit-all gesture hides the window; on macOS it arms no
\* timer, elsewhere it arms one re-creation timer, and that timer, firing
\* while the window exists, makes the window visible.
C24_VetoedQuitHidesThenShows ==
  [][/\ (lastEvent' = "beforeQuit" /\ ~isQuitting /\ mainWindow # "null")
          => /\ mainWindow' = "hidden"
             /\ timers' = IF platform = "darwin" THEN timers
                          ELSE AddTimer(timers, "recreate")
     /\ (lastEvent' = "recreateTimer" /\ platform # "darwin"
           /\ mainWindow # "null")
          => mainWindow' = "visible"]_vars

\* C25: a running process that has no window, is not headless and has not
\* set isQuitting has a timer pending that will call createWindow.
C25_DestroyedHasRecreation ==
  (pstate = "running" /\ mainWindow = "null" /\ ~isHeadlessMode
     /\ ~isQuitting)
    => timers["recreate"] + timers["closeRecreate"] > 0

C25_Witness ==
  /\ pstate = "running" /\ mainWindow = "null" /\ ~isHeadlessMode
  /\ ~isQuitting /\ lastEvent = "closed" /\ timers["recreate"] > 0

\* the steps in which the will-quit handler runs
WillQuitSteps == {"forceQuit", "beforeQuit", "quitClose"}

\* C26: a process ends by itself only in a step that runs the will-quit
\* handler, with the exit code that handler chooses from isManualQuit.
C26_ExitOnlyInWillQuit ==
  [][(pstate # "exited" /\ pstate' = "exited")
       => (lastEvent' \in WillQuitSteps
           /\ exitCode' = WillQuitCode(isManualQuit'))]_vars

\* C27: the fault's step only arms the timer (no relaunch, no exit); the
\* timer's step calls app.relaunch() and ends the process; and a running
\* process with the timer armed ends, by that timer or by Force Quit (or is
\* killed).
C27_FaultRelaunchesAfterDelay ==
  /\ [][/\ lastEvent' = "fault"
             => /\ relaunchCalls' = relaunchCalls /\ pstate' = "running"
                /\ timers'["relaunch"] = timers["relaunch"] + 1
        /\ lastEvent' = "relaunchTimer"
             => /\ relaunchCalls' = relaunchCalls + 1 /\ pstate' = "exited"
                /\ timers["relaunch"] > 0]_vars
  /\ (pstate = "running" /\ timers["relaunch"] > 0)
       ~> \/ pstate = "exited" /\ (relaunchCalls > 0 \/ forceQuitUsed)
          \/ pstate = "killed"

C27_Witness ==
  /\ lastEvent = "relaunchTimer" /\ pstate = "exited"
  /\ relaunchCalls = 1 /\ ~forceQuitUsed /\ ~isManualQuit

\* the states of a run that has ended
Ended == {"closed", "errored", "threw", "erroredUnheard"}

\* C28: an invocation of start-heavy-task starts exactly one run and no
\* other step starts one; a run that ended or failed to spawn is never
\* running again; and a running worker stops running only by its own
\* 'close'.
C28_NoRetryNoKill ==
  [][/\ Cardinality({i \in 1..MaxWorkers :
                       workers[i].proc = "unused"
                       /\ workers'[i].proc # "unused"})
          = IF lastEvent' = "startHeavyTask" THEN 1 ELSE 0
     /\ \A i \in 1..MaxWorkers :
          /\ workers[i].proc \in Ended \cup {"failing", "failingUnheard"}
               => workers'[i].proc # "running"
          /\ (workers[i].proc = "running" /\ workers'[i].proc # "running")
               => (lastEvent' = "workerClose" /\ workers'[i].proc = "closed")
          /\ workers[i].proc \in Ended => workers'[i].proc = workers[i].proc
               \/ (workers[i].proc = "errored" /\ workers'[i].proc = "closed")]_vars

C28_Witness ==
  \E i, j \in 1..MaxWorkers :
    /\ i # j /\ workers[i].proc = "closed" /\ workers[i].closeCode = 1
    /\ workers[i].spawn = "ok"
    /\ workers[j].spawn = "emitsError" /\ workers[j].proc = "closed"

\* C29: the tasks complete in the order primes, data file, JSON dataset,
\* calculations, each started after the one before completed, and a worker
\* that exited with code 0 completed all four and had no failed task.
C29_WorkerExitsZeroAfterAllTasks ==
  /\ \E n \in 0..Len(Tasks) : wk.done = SubSeq(Tasks, 1, n)
  /\ wk.pc = "file" => wk.done = <<"primes">>
  /\ wk.pc = "json" => wk.done = <<"primes", "file">>
  /\ wk.pc = "calc" => wk.done = <<"primes", "file", "json">>
  /\ (wk.pc = "exited" /\ wk.code = 0) => (wk.done = Tasks /\ ~wk.failed)
  /\ wk.failed => (wk.pc = "exited" /\ wk.code # 0)

C29_Witness ==
  /\ wk.pc = "exited" /\ wk.code = 0 /\ wk.done = Tasks
  /\ wk.written = MaxWrites

MarkerNext ==
  \/ \E flag \in BOOLEAN : Launch(flag)
  \/ SupervisorRelaunch
  \/ \E unlinked \in BOOLEAN : WhenReadyFs(unlinked)
  \/ Kill

MarkerSpec == Init /\ [][MarkerNext]_vars

\* C31: checkIfRestartAfterKill never throws, and the startup that observes
\* the restart marker consumes it: after a whenReady initialisation that
\* found the marker, the marker is gone, so that the next startup does not
\* show the window because of the same marker.
C31_MarkerConsumedOnStartup ==
  [][lastEvent' = "whenReady"
       => /\ \A u \in BOOLEAN : ~checkIfRestartAfterKillFs(marker, u).throws
          /\ (marker => ~marker')]_vars

\* C32: createWindow constructs a BrowserWindow only when no non-destroyed
\* window exists: in every reachable state, whichever handler or re-creation
\* timer calls createWindow next (with or without LAUNCH_AGENT_RESTART), the
\* call constructs a window only if this.mainWindow is null.
C32_OneWindowSurface ==
  \A flag, unlinked \in BOOLEAN :
    createWindowFs(flag, mainWindow, readyPending, isHeadlessMode,
                   isCreatingWindow, marker, unlinked).constructed
      => mainWindow = "null"

C32_Witness ==
  /\ lastEvent = "recreateTimer" /\ mainWindow # "null" /\ readyPending
  /\ timers["recreate"] > 0 /\ showRequested

\* C33: once the sanctioned exit control was invoked in a process, a
\* re-creation timer armed earlier by the 'close', 'closed',
\* 'window-all-closed' or 'before-quit' handler neither creates a window nor
\* makes the window visible when it fires.
C33_NoWindowAfterForceQuit ==
  [][(forceQuitUsed /\ lastEvent' \in {"recreateTimer", "closeRecreateTimer"})
       => /\ (mainWindow = "null" => mainWindow' = "null")
          /\ (mainWindow # "visible" => mainWindow' # "visible")]_vars

\* C34: a process that does not get the single-instance lock has changed no
\* file shared between processes: it did not remove the intentional-quit
\* signal file that it found.
C34_SecondaryLeavesFiles ==
  hb.secondary \cap hb.removed = {}

C36_RelaunchAtMostOnce ==
  relaunchCalls <= 1

\* C37: after showUI ran in a process, LAUNCH_AGENT_RESTART is cleared and
\* headless mode is off for the rest of that process; every createWindow
\* call made from then on takes the normal path (it constructs a window or
\* makes the existing one visible), and an activate event is not ignored: it
\* leaves a window.
C37_ShowUIEndsHeadless ==
  /\ [](showRequested
         => /\ ~envFlag /\ ~isHeadlessMode
            /\ \A unlinked \in BOOLEAN :
                 LET r == createWindowFs(envFlag, mainWindow, readyPending,
                                         isHeadlessMode, isCreatingWindow,
                                         marker, unlinked)
                 IN  r.constructed \/ r.mainWindow = "visible")
  /\ [][/\ lastEvent' \in ShowSources => showRequested'
        /\ (showRequested /\ lastEvent' = "activate")
             => mainWindow' # "null"]_vars

C37_Witness ==
  /\ showRequested /\ startFlag /\ ~startMarker
  /\ lastEvent = "recreateTimer" /\ mainWindow = "visible"

RECURSIVE isPrimeLoop(_, _)
isPrimeLoop(n, i) ==
  IF i * i > n THEN TRUE
  ELSE IF n % i = 0 THEN FALSE
  ELSE isPrimeLoop(n, i + 2)

\* an isPrime without its loop over the odd divisors
isPrimeNoLoop(n) ==
  IF n < 2 THEN FALSE
  ELSE IF n = 2 THEN TRUE
  ELSE n % 2 # 0

\* isPrime(n)
isPrime(n) ==
  IF n < 2 THEN FALSE
  ELSE IF n = 2 THEN TRUE
  ELSE IF n % 2 = 0 THEN FALSE
  ELSE isPrimeLoop(n, 3)

\* the calls that are followed: isPrime(n), then generateLargePrimes(count).
\* wk.pc: "isPrime" | "primes" | "returned"; wk.result: what isPrime(n)
\* returned; wk.primes and wk.num: the locals of generateLargePrimes
PrimeCalls ==
  [pc : {"isPrime"}, n : (0 - 2)..MaxN, result : {FALSE}, count : 0..MaxCount,
   num : {2}, primes : {<<>>}]

\* isPrime(wk.n) returns
PrimeCheck ==
  /\ wk.pc = "isPrime"
  /\ wk' = [wk EXCEPT !.pc = "primes", !.result = isPrime(wk.n)]
  /\ UNCHANGED workerFrame

\* one pass of the while loop of generateLargePrimes (the sleep at every
\* 10000th num changes no local)
PrimesLoop ==
  /\ wk.pc = "primes"
  /\ Len(wk.primes) < wk.count
  /\ wk' = [wk EXCEPT
              !.primes = IF isPrime(wk.num) THEN Append(@, wk.num) ELSE @,
              !.num = @ + 1]
  /\ UNCHANGED workerFrame

\* the loop condition fails: generateLargePrimes returns primes
PrimesReturn ==
  /\ wk.pc = "primes"
  /\ ~(Len(wk.primes) < wk.count)
  /\ wk' = [wk EXCEPT !.pc = "returned"]
  /\ UNCHANGED workerFrame

PrimeNext ==
  \/ PrimeCheck
  \/ PrimesLoop
  \/ PrimesReturn

PrimeInit == AppDown /\ wk \in PrimeCalls

\* the calls run to their end: the loop goes on after every sleep
PrimeSpec == PrimeInit /\ [][PrimeNext]_vars /\ WF_vars(PrimeNext)

\* C39: isPrime(n) is true exactly when n is a prime number; at every moment
\* of generateLargePrimes(count) the list holds exactly the primes below
\* num, in ascending order; the call returns, and the list it returns has
\* count elements (the first count primes).
C39_PrimesCorrect ==
  /\ [](/\ wk.pc # "isPrime"
             => (wk.result <=> (wk.n > 1 /\ \A d \in 2..(wk.n - 1) : wk.n % d # 0))
        /\ \A k \in 1..Len(wk.primes) :
             /\ wk.primes[k] > 1
             /\ \A d \in 2..(wk.primes[k] - 1) : wk.primes[k] % d # 0
             /\ k > 1 => wk.primes[k - 1] < wk.primes[k]
        /\ \A m \in 2..(wk.num - 1) :
             (\A d \in 2..(m - 1) : m % d # 0)
               => \E k \in 1..Len(wk.primes) : wk.primes[k] = m
        /\ wk.pc = "returned" => Len(wk.primes) = wk.count)
  /\ <>(wk.pc = "returned")

C39_Witness ==
  /\ wk.pc = "returned" /\ wk.count = MaxCount /\ Len(wk.primes) = MaxCount
  /\ wk.n = 25 /\ ~wk.result

\* ------------------------------------ worker.js: generateRandomDataFile
\* Math.min(chunkSize, totalSize - written)
remainingSize(chunkSize, totalSize, written) ==
  IF chunkSize < totalSize - written THEN chunkSize ELSE totalSize - written

\* Buffer.byteLength(jsonData): the base64 text of the random bytes and the
\* JSON text around it (timestamp, chunk, hash, newline)
byteLength(remaining, overhead) == 4 * ((remaining + 2) \div 3) + overhead

\* the sizes that are followed, scaled down from 1 MB and 500 MB. wk.pc:
\* "writeChunk" (writeChunk is about to run) | "writing" (the callback of
\* writeStream.write is pending) | "resolved" | "rejected"; wk.len: the
\* length of the chunk being written; wk.chunks: the write calls;
\* wk.resolves, wk.rejects: calls of resolve and of reject
FileCalls ==
  [pc : {"writeChunk"}, chunkSize : 1..MaxChunkSize,
   totalSize : 0..MaxTotalSize, written : {0}, len : {0}, chunks : {0},
   resolves : {0}, rejects : {0}]

\* a write callback that does not count the chunk
fileWriteCallbackNoCount(w, error) ==
  IF error THEN [w EXCEPT !.pc = "rejected", !.rejects = @ + 1]
  ELSE [w EXCEPT !.pc = "writeChunk"]

\* the callback of writeStream.write: reject and return on error, else add
\* the chunk's length to written and setImmediate(writeChunk)
fileWriteCallback(w, error) ==
  IF error THEN [w EXCEPT !.pc = "rejected", !.rejects = @ + 1]
  ELSE [w EXCEPT !.pc = "writeChunk", !.written = @ + w.len]

\* writeChunk with written >= totalSize: writeStream.end(); resolve()
FileResolve ==
  /\ wk.pc = "writeChunk"
  /\ wk.written >= wk.totalSize
  /\ wk' = [wk EXCEPT !.pc = "resolved", !.resolves = @ + 1]
  /\ UNCHANGED workerFrame

\* writeChunk with written < totalSize: writeStream.write(jsonData, cb)
FileWrite ==
  /\ wk.pc = "writeChunk"
  /\ ~(wk.written >= wk.totalSize)
  /\ \E overhead \in 1..MaxOverhead :
       wk' = [wk EXCEPT
                !.pc = "writing", !.chunks = @ + 1,
                !.len = byteLength(remainingSize(wk.chunkSize, wk.totalSize,
                                                 wk.written), overhead)]
  /\ UNCHANGED workerFrame

\* the write completes, or fails: its callback runs
FileWritten(error) ==
  /\ wk.pc = "writing"
  /\ wk' = fileWriteCallback(wk, error)
  /\ UNCHANGED workerFrame

FileNext ==
  \/ FileResolve
  \/ FileWrite
  \/ \E error \in BOOLEAN : FileWritten(error)

FileInit == AppDown /\ wk \in FileCalls

\* the write stream calls back for every write, and setImmediate runs
\* writeChunk
FileSpec == FileInit /\ [][FileNext]_vars /\ WF_vars(FileNext)

\* C40: every successful chunk write increases written; the promise settles
\* at most once, resolves only with written >= totalSize and no write
\* pending, and after a write error it is rejected and no further chunk is
\* written; and the function comes to its end: the promise is settled.
C40_FileTerminates ==
  /\ [](/\ wk.resolves + wk.rejects <= 1
        /\ wk.resolves = 1 => (wk.pc = "resolved" /\ wk.written >= wk.totalSize)
        /\ wk.rejects = 1 => wk.pc = "rejected"
        /\ wk.pc \in {"writeChunk", "writing"}
             => wk.resolves + wk.rejects = 0)
  /\ [][/\ (wk.pc = "writing" /\ wk'.pc = "writeChunk")
             => wk'.written > wk.written
        /\ wk.rejects = 1 => wk'.chunks = wk.chunks
        /\ wk'.written >= wk.written]_vars
  /\ <>(wk.pc \in {"resolved", "rejected"})

C40_Witness ==
  /\ wk.pc = "resolved" /\ wk.chunks >= 3 /\ wk.written > wk.totalSize
  /\ wk.totalSize = MaxTotalSize

====
